---- MODULE Spec2Model ----
(***************************************************************************)
(* Model of the directory flattener: the command line tool                 *)
(* (flatten_file_data.py: main, parse_folder) and the window application   *)
(* (flatten_gui.py: DirectoryScanner, MainWindow, ConfigDialog).           *)
(*                                                                         *)
(* Text is modelled as a sequence of tokens (short strings); a file or     *)
(* folder name is such a sequence too, so that "a.py" is <<"a", ".py">>    *)
(* and str.endswith is a suffix test on sequences.  A path is a sequence   *)
(* of names.  The directory tree under the root is the set `disk` of the   *)
(* root-relative paths of its files; its directories are the proper        *)
(* prefixes of those paths.                                                *)
(***************************************************************************)
EXTENDS Integers, Sequences, FiniteSets, TLC

\* ------------------------------------------------------------ bounds
\* At most this many files are put in the tree before the program starts.
MaxFiles == 2
\* At most this many invocations (runs of main, calls of parse_folder or of
\* scan_directory, window events).
MaxRuns == 2

\* ------------------------------------------------------------- names
TESTS == <<"tests">>
SUBTESTS == <<"sub", "tests">>
A_PY == <<"a", ".py">>
N_TXT == <<"n", ".txt">>
OUT_TXT == <<"out", ".txt">>
OUT_PY == <<"out", ".py">>

\* The order in which a directory lists its entries (os.scandir's order is
\* the file system's: arbitrary, but fixed for an unchanged directory).
NameOrder == <<A_PY, N_TXT, OUT_PY, OUT_TXT, SUBTESTS, TESTS>>

\* The directories a tree may have files in, and the files it may have.
TreeDirs == { <<>>, <<SUBTESTS>>, <<TESTS>>, <<SUBTESTS, TESTS>>, <<TESTS, SUBTESTS>> }
TreeFiles == { d \o <<A_PY>> : d \in TreeDirs } \cup { <<N_TXT>>, <<SUBTESTS, N_TXT>> }

\* Root directories: two existing ones holding the same tree, one of them
\* below a folder called "tests", and a path that is no directory.
ProjRoot == <<<<"proj">>>>
TestsProjRoot == <<TESTS, <<"proj">>>>
MissingRoot == <<<<"missing">>>>
Roots == { ProjRoot, TestsProjRoot }

\* Where the command line tool's output file lies: outside of the scanned
\* tree, or in the root directory itself (the working directory is the root).
Outside == << <<"outside">> >>
OutPaths == { Outside, <<OUT_TXT>>, <<OUT_PY>> }
Absent == <<"absent">>
OldText == <<"old text">>

\* ------------------------------------------------ module-level constants
INCLUDE_FILES == << <<".py">>, <<".xml">> >>
SKIP_FOLDERS == << <<"tests">>, <<"static">>, <<"__pycache__">>, <<"i18n">> >>
DEFAULT_FILE_EXTENSIONS == { <<".py">>, <<".xml">> }
DEFAULT_SKIP_FOLDERS == { <<"tests">>, <<"static">>, <<"__pycache__">>, <<"i18n">> }

\* ------------------------------------------------------- sequences
Range(s) == { s[i] : i \in 1..Len(s) }

RECURSIVE Concat(_)
Concat(ss) == IF ss = <<>> THEN <<>> ELSE Head(ss) \o Concat(Tail(ss))

\* sep.join(items)
RECURSIVE Join(_, _)
Join(items, sep) ==
    IF items = <<>> THEN <<>>
    ELSE IF Len(items) = 1 THEN Head(items)
    ELSE Head(items) \o sep \o Join(Tail(items), sep)

\* str.endswith(suffix)
EndsWith(s, suffix) ==
    /\ Len(suffix) <= Len(s)
    /\ SubSeq(s, Len(s) - Len(suffix) + 1, Len(s)) = suffix

\* s occurs in t as a contiguous run of tokens
Occurs(s, t) ==
    \E i \in 0..(Len(t) - Len(s)) : SubSeq(t, i + 1, i + Len(s)) = s

Count(tok, t) == Cardinality({ i \in 1..Len(t) : t[i] = tok })

\* ------------------------------------------------------------ paths
\* str of a relative path: its names joined by "/"
RelStr(p) == Join(p, <<"/">>)
\* str of an absolute path
AbsStr(p) == <<"/">> \o Join(p, <<"/">>)

\* os.path.join(dirpath, filename), pathlib's root / rel
PathJoin(dir, rel) == dir \o rel
\* os.path.relpath(path, start), Path.relative_to: path lies below start
RelativeTo(path, start) == SubSeq(path, Len(start) + 1, Len(path))

IsPrefix(d, p) == Len(d) <= Len(p) /\ SubSeq(p, 1, Len(d)) = d

\* ------------------------------------------------------ file system
VARIABLES
    prog,          \* the entry point in use: "main", "parse_folder", "scan_directory", "window"
    root_dir,      \* the root directory argument (for the window: folder_input as last read)
    disk,          \* root-relative paths of the files now below the root
    unreadable,    \* the files whose read raises (permission, decoding)
    output_file,   \* where the output file of the command line tool lies
    out,           \* the output file's text, Absent while it does not exist
    outWritable,   \* whether the output file can be opened for writing
    pc,            \* position of main / parse_folder
    base,          \* length of the output file when parse_folder opened it
    stack,         \* os.walk: the directories still to be walked, next first
    pending,       \* the file names of the walked directory not yet handled
    dirpath,       \* the directory os.walk yielded last
    enumerated,    \* directories whose entries the traversal has listed
    reads,         \* files the traversal has opened for reading
    runs,          \* invocations so far
    config,        \* MainWindow.config
    scanner,       \* MainWindow.scanner.config (DirectoryScanner.config)
    text_display,  \* the window's displayed text
    event,         \* what the last handler or step reported
    returned       \* the documents scan_directory returned to a direct caller

vars == << prog, root_dir, disk, unreadable, output_file, out, outWritable, pc,
           base, stack, pending, dirpath, enumerated, reads, runs, config,
           scanner, text_display, event, returned >>

envVars == << prog, unreadable, output_file, outWritable >>
walkVars == << base, stack, pending, dirpath >>
guiVars == << config, scanner, text_display, returned >>

\* os.path.isdir(root), Path.is_dir()
IsDir(root) == root \in Roots

\* The sub-directory and the file names of directory d (root-relative), in
\* listing order.
DirNames(d, fs) ==
    LET isSub(n) == \E p \in fs : IsPrefix(d \o <<n>>, p) /\ Len(p) > Len(d) + 1
    IN  SelectSeq(NameOrder, isSub)

FileNames(d, fs) ==
    LET isFile(n) == (d \o <<n>>) \in fs
    IN  SelectSeq(NameOrder, isFile)

\* What reading file p as UTF-8 text returns.  The output file itself, when
\* it lies in the tree, reads as whatever part of it is flushed so far.
ReadText(p, ofile) ==
    IF p = ofile THEN <<"<output flushed so far>">>
    ELSE <<"<text of ">> \o RelStr(p) \o <<">">>

ReadError == "Permission denied"

\* ------------------------------------------------- flatten_file_data.py
\* filename.endswith(INCLUDE_FILES)
IncludedCLI(filename) ==
    \E i \in 1..Len(INCLUDE_FILES) : EndsWith(filename, INCLUDE_FILES[i])

\* dirnames[:] = [d for d in dirnames if d not in SKIP_FOLDERS]
Prune(dirnames) ==
    LET keep(d) == d \notin Range(SKIP_FOLDERS)
    IN  SelectSeq(dirnames, keep)

RootHeaderCLI(root) == <<"Root folder: ">> \o AbsStr(root) \o <<"\n", "\n">>
FileHeaderCLI(rel) == <<"[">> \o RelStr(rel) \o <<"]", "\n">>
ErrorLineCLI == <<"Error reading file: ", ReadError, "\n">>
SeparatorCLI == <<"\n", "\n">>

\* The output file exists from now on; in the tree when it lies there.
Created(fs, ofile) == IF ofile = Outside THEN fs ELSE fs \cup {ofile}

\* Mutant of MainValidate: the output file is truncated before the root is
\* checked.
MainValidate_AfterTruncate ==
    /\ prog = "main" /\ pc = "start"
    /\ IF IsDir(root_dir)
       THEN pc' = "validated" /\ event' = "none" /\ UNCHANGED << out, disk >>
       ELSE /\ pc' = "exit1" /\ event' = "not a valid directory"
            /\ out' = (IF outWritable THEN <<>> ELSE out)
            /\ disk' = (IF outWritable THEN Created(disk, output_file) ELSE disk)
    /\ UNCHANGED << envVars, walkVars, guiVars, root_dir, enumerated, reads, runs >>

\* main, lines 63-66: the root must be a directory.
MainValidate ==
    /\ prog = "main" /\ pc = "start"
    /\ IF IsDir(root_dir)
       THEN pc' = "validated" /\ event' = "none"
       ELSE pc' = "exit1" /\ event' = "not a valid directory"
    /\ UNCHANGED << envVars, walkVars, guiVars, root_dir, disk, out, enumerated, reads, runs >>

\* Mutant of MainTruncate: the file is opened without being truncated.
MainTruncate_KeepsText ==
    /\ prog = "main" /\ pc = "validated"
    /\ IF outWritable
       THEN /\ out' = (IF out = Absent THEN <<>> ELSE out)
            /\ disk' = Created(disk, output_file)
            /\ pc' = "truncated" /\ event' = "none"
       ELSE /\ pc' = "exit1" /\ event' = "unable to write to output file"
            /\ UNCHANGED << out, disk >>
    /\ UNCHANGED << envVars, walkVars, guiVars, root_dir, enumerated, reads, runs >>

\* main, lines 71-77: open(output_file, 'w') creates or truncates the file.
MainTruncate ==
    /\ prog = "main" /\ pc = "validated"
    /\ IF outWritable
       THEN /\ out' = <<>>
            /\ disk' = Created(disk, output_file)
            /\ pc' = "truncated" /\ event' = "none"
       ELSE /\ pc' = "exit1" /\ event' = "unable to write to output file"
            /\ UNCHANGED << out, disk >>
    /\ UNCHANGED << envVars, walkVars, guiVars, root_dir, enumerated, reads, runs >>

\* Mutant of ParseOpen: the root header is not written.
ParseOpen_NoRootHeader ==
    /\ \/ prog = "main" /\ pc = "truncated"
       \/ prog = "parse_folder" /\ pc = "start"
    /\ IF outWritable
       THEN /\ base' = (IF out = Absent THEN 0 ELSE Len(out))
            /\ out' = (IF out = Absent THEN <<>> ELSE out)
            /\ disk' = Created(disk, output_file)
            /\ stack' = << <<>> >>
            /\ pc' = "walking" /\ event' = "none"
            /\ UNCHANGED << pending, dirpath >>
       ELSE /\ pc' = "raised" /\ event' = "IOError"
            /\ UNCHANGED << out, disk, walkVars >>
    /\ UNCHANGED << envVars, guiVars, root_dir, enumerated, reads, runs >>

\* parse_folder, lines 22-23: open(output_file, 'a') and the root header.
ParseOpen ==
    /\ \/ prog = "main" /\ pc = "truncated"
       \/ prog = "parse_folder" /\ pc = "start"
    /\ IF outWritable
       THEN /\ base' = (IF out = Absent THEN 0 ELSE Len(out))
            /\ out' = (IF out = Absent THEN <<>> ELSE out) \o RootHeaderCLI(root_dir)
            /\ disk' = Created(disk, output_file)
            /\ stack' = << <<>> >>
            /\ pc' = "walking" /\ event' = "none"
            /\ UNCHANGED << pending, dirpath >>
       ELSE /\ pc' = "raised" /\ event' = "IOError"
            /\ UNCHANGED << out, disk, walkVars >>
    /\ UNCHANGED << envVars, guiVars, root_dir, enumerated, reads, runs >>

\* parse_folder, lines 25-27: os.walk yields the next directory with its
\* entries, the loop body prunes dirnames, and the walk will descend into
\* what is left of them after the directory's files are handled.
WalkNext ==
    /\ pc = "walking" /\ pending = <<>> /\ stack # <<>>
    /\ LET d == Head(stack)
           kept == Prune(DirNames(d, disk))
       IN  IF IsDir(root_dir)
           THEN /\ enumerated' = enumerated \cup {d}
                /\ dirpath' = d
                /\ pending' = FileNames(d, disk)
                /\ stack' = [i \in 1..Len(kept) |-> d \o <<kept[i]>>] \o Tail(stack)
           ELSE \* os.walk ignores the error of listing what is no directory
                /\ stack' = Tail(stack)
                /\ UNCHANGED << enumerated, dirpath, pending >>
    /\ UNCHANGED << envVars, guiVars, root_dir, disk, out, pc, base, reads, runs, event >>

\* Mutant of ProcessFile: a read error ends the traversal after its error line.
ProcessFile_StopsAtError ==
    /\ pc = "walking" /\ pending # <<>>
    /\ LET filename == Head(pending)
           file_path == PathJoin(PathJoin(root_dir, dirpath), <<filename>>)
           rel_path == RelativeTo(file_path, root_dir)
       IN  IF IncludedCLI(filename)
           THEN /\ reads' = reads \cup {rel_path}
                /\ IF rel_path \in unreadable
                   THEN /\ out' = out \o FileHeaderCLI(rel_path) \o ErrorLineCLI \o SeparatorCLI
                        /\ event' = "read error"
                        /\ pending' = <<>> /\ stack' = <<>>
                   ELSE /\ out' = out \o FileHeaderCLI(rel_path)
                                      \o ReadText(rel_path, output_file) \o SeparatorCLI
                        /\ event' = "none"
                        /\ pending' = Tail(pending) /\ UNCHANGED stack
           ELSE /\ pending' = Tail(pending)
                /\ UNCHANGED << out, reads, event, stack >>
    /\ UNCHANGED << envVars, guiVars, root_dir, disk, pc, base, dirpath, enumerated, runs >>

\* parse_folder, lines 29-41: one file name of the yielded directory.
ProcessFile ==
    /\ pc = "walking" /\ pending # <<>>
    /\ LET filename == Head(pending)
           file_path == PathJoin(PathJoin(root_dir, dirpath), <<filename>>)
           rel_path == RelativeTo(file_path, root_dir)
       IN  IF IncludedCLI(filename)
           THEN /\ reads' = reads \cup {rel_path}
                /\ IF rel_path \in unreadable
                   THEN /\ out' = out \o FileHeaderCLI(rel_path) \o ErrorLineCLI \o SeparatorCLI
                        /\ event' = "read error"
                   ELSE /\ out' = out \o FileHeaderCLI(rel_path)
                                      \o ReadText(rel_path, output_file) \o SeparatorCLI
                        /\ event' = "none"
           ELSE UNCHANGED << out, reads, event >>
    /\ pending' = Tail(pending)
    /\ UNCHANGED << envVars, guiVars, root_dir, disk, pc, base, stack, dirpath, enumerated, runs >>

\* parse_folder returns (the file is closed); main prints and ends.
ParseClose ==
    /\ pc = "walking" /\ pending = <<>> /\ stack = <<>>
    /\ pc' = "done"
    /\ event' = "parsing complete"
    /\ UNCHANGED << envVars, walkVars, guiVars, root_dir, disk, out, enumerated, reads, runs >>

\* The tool is run, or parse_folder is called, once more with the same arguments.
Again ==
    /\ prog \in {"main", "parse_folder"}
    /\ pc \in {"done", "exit1", "raised"}
    /\ runs < MaxRuns
    /\ runs' = runs + 1
    /\ pc' = "start"
    /\ enumerated' = {} /\ reads' = {}
    /\ event' = "none"
    /\ UNCHANGED << envVars, walkVars, guiVars, root_dir, disk, out >>

\* ------------------------------------------------------ flatten_gui.py
\* Configuration.get_defaults
GetDefaults ==
    [include_files |-> DEFAULT_FILE_EXTENSIONS, skip_folders |-> DEFAULT_SKIP_FOLDERS]

\* str.strip() of one comma-separated field
RECURSIVE LStrip(_)
LStrip(s) == IF s # <<>> /\ Head(s) = " " THEN LStrip(Tail(s)) ELSE s
RECURSIVE RStrip(_)
RStrip(s) == IF s # <<>> /\ s[Len(s)] = " " THEN RStrip(SubSeq(s, 1, Len(s) - 1)) ELSE s
Strip(s) == RStrip(LStrip(s))

\* {x.strip() for x in text.split(',') if x.strip()}; the text is given as
\* its comma-separated fields
ParseFields(fields) ==
    { Strip(fields[i]) : i \in { j \in 1..Len(fields) : Strip(fields[j]) # <<>> } }

\* ConfigDialog.get_config
GetConfig(files_input, folders_input) ==
    [include_files |-> ParseFields(files_input), skip_folders |-> ParseFields(folders_input)]

\* What the user may leave in the dialog's two line edits.
FilesInputs == { << <<>> >>, << <<".py">> >>, << <<".py">>, <<" ", ".xml">> >> }
FoldersInputs == { << <<" ">> >>, << <<"tests">>, <<" ", "static", " ">> >> }

\* The configurations Configuration.load may return: the defaults, or what
\* an earlier session saved.
LoadedConfigs ==
    {GetDefaults} \cup { GetConfig(f, d) : f \in FilesInputs, d \in FoldersInputs }

\* pathlib's rglob('*'): every directory below (and including) the root is
\* listed, parents first, and each entry of each is yielded.
RECURSIVE WalkAll(_, _)
WalkAll(todo, fs) ==
    IF todo = <<>> THEN <<>>
    ELSE LET d == Head(todo)
             subs == DirNames(d, fs)
         IN  <<d>> \o WalkAll([i \in 1..Len(subs) |-> d \o <<subs[i]>>] \o Tail(todo), fs)

RGlobDirs(root, fs) == IF IsDir(root) THEN WalkAll(<< <<>> >>, fs) ELSE <<>>

Entries(d, fs) ==
    LET names == SelectSeq(NameOrder,
                     LAMBDA n : \E p \in fs : IsPrefix(d \o <<n>>, p))
    IN  [i \in 1..Len(names) |-> d \o <<names[i]>>]

RGlob(root, fs) ==
    LET dirs == RGlobDirs(root, fs)
    IN  Concat([i \in 1..Len(dirs) |-> Entries(dirs[i], fs)])

\* DirectoryScanner._iterate_files: the yielded paths, root-relative, in order
IterateFiles(root, cfg, fs) ==
    LET matches(rel) ==
            LET path == PathJoin(root, rel)
            IN  /\ rel \in fs
                /\ \E ext \in cfg.include_files : EndsWith(AbsStr(path), ext)
                /\ ~ \E skip \in cfg.skip_folders : skip \in Range(path)
    IN  SelectSeq(RGlob(root, fs), matches)

\* DirectoryScanner.scan_directory, lines 146-161, for a valid root
FileItems(rel, bad) ==
    << <<"[">> \o RelStr(rel) \o <<"]">>,
       IF rel \in bad THEN <<"Error reading file: ", ReadError>>
                      ELSE ReadText(rel, Outside),
       <<"\n">> >>

ScanDirectory(root, cfg, fs, bad) ==
    LET files == IterateFiles(root, cfg, fs)
        content == << <<"Root folder: ">> \o AbsStr(root) \o <<"\n">> >>
                   \o Concat([i \in 1..Len(files) |-> FileItems(files[i], bad)])
    IN  Join(content, <<"\n">>)

\* Configuration.save as show_config_dialog calls it: it raises
\* ConfigurationError when the settings file cannot be written.
SaveOutcome(ok) == IF ok THEN "configuration saved" ELSE "ConfigurationError"

\* Mutant of ShowConfigDialog: the configuration is saved before the scanner
\* is given it, so that a failed save leaves the scanner with the old one.
ShowConfigDialog_SaveFirst ==
    /\ prog = "window" /\ runs < MaxRuns
    /\ runs' = runs + 1
    /\ \/ \E files_input \in FilesInputs, folders_input \in FoldersInputs, saved \in BOOLEAN :
            /\ config' = GetConfig(files_input, folders_input)
            /\ scanner' = (IF saved THEN config' ELSE scanner)
            /\ event' = SaveOutcome(saved)
       \/ /\ event' = "dialog rejected"
          /\ UNCHANGED << config, scanner >>
    /\ UNCHANGED << envVars, walkVars, root_dir, disk, out, pc, enumerated, reads,
                    text_display, returned >>

\* MainWindow.show_config_dialog
ShowConfigDialog ==
    /\ prog = "window" /\ runs < MaxRuns
    /\ runs' = runs + 1
    /\ \/ \E files_input \in FilesInputs, folders_input \in FoldersInputs, saved \in BOOLEAN :
            \* QDialog.Accepted
            /\ config' = GetConfig(files_input, folders_input)
            /\ scanner' = config'
            /\ event' = SaveOutcome(saved)
       \/ \* the dialog is cancelled
          /\ event' = "dialog rejected"
          /\ UNCHANGED << config, scanner >>
    /\ UNCHANGED << envVars, walkVars, root_dir, disk, out, pc, enumerated, reads,
                    text_display, returned >>

\* MainWindow.generate_content; the handler reads the folder_input text,
\* which the user has typed or browsed to (browse_folder) before.
GenerateContent ==
    /\ prog = "window" /\ runs < MaxRuns
    /\ runs' = runs + 1
    /\ root_dir' \in Roots \cup {MissingRoot}
    /\ IF ~IsDir(root_dir')
       THEN /\ event' = "warning: Invalid directory"
            /\ enumerated' = {} /\ reads' = {}
            /\ UNCHANGED text_display
       ELSE IF config.include_files = {}
       THEN /\ event' = "warning: No file extensions configured"
            /\ enumerated' = {} /\ reads' = {}
            /\ UNCHANGED text_display
       ELSE /\ text_display' = ScanDirectory(root_dir', scanner, disk, unreadable)
            /\ enumerated' = Range(RGlobDirs(root_dir', disk))
            /\ reads' = Range(IterateFiles(root_dir', scanner, disk))
            /\ event' = "Content generated successfully"
    /\ UNCHANGED << envVars, walkVars, disk, out, pc, config, scanner, returned >>

\* DirectoryScanner.scan_directory called by other code, lines 141-161
ScanCall ==
    /\ prog = "scan_directory" /\ runs < MaxRuns
    /\ runs' = runs + 1
    /\ IF ~IsDir(root_dir)
       THEN /\ event' = "ValueError: Invalid directory"
            /\ enumerated' = {} /\ reads' = {}
            /\ UNCHANGED returned
       ELSE /\ returned' = Append(returned, ScanDirectory(root_dir, scanner, disk, unreadable))
            /\ enumerated' = Range(RGlobDirs(root_dir, disk))
            /\ reads' = Range(IterateFiles(root_dir, scanner, disk))
            /\ event' = "returned"
    /\ UNCHANGED << envVars, walkVars, root_dir, disk, out, pc, config, scanner, text_display >>

\* ----------------------------------------------------- specification
\* The trees: at most MaxFiles files, at most one of them unreadable.
Trees == { fs \in SUBSET TreeFiles : Cardinality(fs) <= MaxFiles }

Init ==
    /\ prog \in {"main", "parse_folder", "scan_directory", "window"}
    /\ root_dir \in (IF prog = "window" THEN {MissingRoot} ELSE Roots \cup {MissingRoot})
    /\ \E fs \in Trees :
          /\ (prog # "window" /\ ~IsDir(root_dir)) => fs = {}
          /\ unreadable \in { u \in SUBSET fs : Cardinality(u) <= 1 }
          /\ IF prog \in {"main", "parse_folder"}
             THEN /\ output_file \in OutPaths
                  /\ ~IsDir(root_dir) => output_file = Outside
                  /\ out \in {Absent, OldText}
                  /\ outWritable \in BOOLEAN
                  /\ disk = IF out = Absent THEN fs ELSE Created(fs, output_file)
             ELSE /\ output_file = Outside /\ out = Absent /\ outWritable = FALSE
                  /\ disk = fs
    /\ pc = "start"
    /\ base = 0 /\ stack = <<>> /\ pending = <<>> /\ dirpath = <<>>
    /\ enumerated = {} /\ reads = {}
    /\ runs = IF prog \in {"main", "parse_folder"} THEN 1 ELSE 0
    /\ config \in (IF prog \in {"window", "scan_directory"} THEN LoadedConfigs ELSE {GetDefaults})
    /\ scanner = config
    /\ text_display = <<>>
    /\ event = "none"
    /\ returned = <<>>

Next ==
    \/ MainValidate
    \/ MainTruncate
    \/ ParseOpen
    \/ WalkNext
    \/ ProcessFile
    \/ ParseClose
    \/ Again
    \/ ShowConfigDialog
    \/ GenerateContent
    \/ ScanCall

Spec == Init /\ [][Next]_vars

\* ------------------------------------------------------------ claims
\* A flatten has just completed, and the document it produced.
IsCLI == prog \in {"main", "parse_folder"}
Finished ==
    \/ IsCLI /\ pc = "done"
    \/ prog = "window" /\ event = "Content generated successfully"
    \/ prog = "scan_directory" /\ event = "returned"
Document ==
    IF IsCLI THEN SubSeq(out, base + 1, Len(out))
    ELSE IF prog = "window" THEN text_display
    ELSE returned[Len(returned)]

\* The configuration the flatten ran with.
RunInclude == IF IsCLI THEN Range(INCLUDE_FILES) ELSE scanner.include_files
RunSkip == IF IsCLI THEN Range(SKIP_FOLDERS) ELSE scanner.skip_folders

\* The files of tree fs the contract selects: the name ends with an included
\* extension and no root-relative segment is a skipped name.
Selected(fs, include, skip) ==
    { p \in fs : /\ \E ext \in include : EndsWith(p[Len(p)], ext)
                 /\ \A i \in 1..Len(p) : p[i] \notin skip }

\* The [relative/path] header lines of a document.
HeaderLine(p) == <<"\n", "[">> \o RelStr(p) \o <<"]", "\n">>
AllPaths == TreeFiles \cup (OutPaths \ {Outside})
Headers(doc) == { p \in AllPaths : Occurs(HeaderLine(p), doc) }

RootTag == "Root folder: "

\* C1: the file headers of a produced document are exactly the root-relative
\* paths of the files whose name ends with an included extension and none of
\* whose root-relative segments is a skipped folder name.
C1_HeadersAreTheSelectedFiles ==
    Finished => Headers(Document) = Selected(disk, RunInclude, RunSkip)

\* C2: the traversal lists no directory that is a skipped folder or lies
\* below one.
C2_NothingBelowSkippedIsEnumerated ==
    (Finished \/ (IsCLI /\ pc = "walking")) =>
        \A d \in enumerated : \A i \in 1..Len(d) : d[i] \notin RunSkip

\* The block a document holds for file p, by the variant's text layout.
BodyOf(p) ==
    IF p \in unreadable
    THEN <<"Error reading file: ", ReadError>> \o (IF IsCLI THEN <<"\n">> ELSE <<>>)
    ELSE ReadText(p, output_file)
BlockOf(p) ==
    IF IsCLI
    THEN <<"[">> \o RelStr(p) \o <<"]", "\n">> \o BodyOf(p) \o <<"\n", "\n">>
    ELSE <<"\n", "[">> \o RelStr(p) \o <<"]", "\n">> \o BodyOf(p) \o <<"\n", "\n">>
RootBlock ==
    <<RootTag>> \o AbsStr(root_dir) \o (IF IsCLI THEN <<"\n", "\n">> ELSE <<"\n">>)

RECURSIVE BlocksLen(_)
BlocksLen(S) ==
    IF S = {} THEN 0
    ELSE LET p == CHOOSE x \in S : TRUE
         IN  Len(BlockOf(p)) + BlocksLen(S \ {p})

\* The files the variant takes: the window's scanner also drops every file
\* when a segment of the root path itself is a skipped name.
Taken ==
    IF ~IsCLI /\ \E i \in 1..Len(root_dir) : root_dir[i] \in RunSkip
    THEN {}
    ELSE Selected(disk, RunInclude, RunSkip)

\* C3: a read failure is local to its file: the document is the root header
\* and one block per taken file, the block of an unreadable file being its
\* header, the "Error reading file:" line and the separator, every other
\* block the header, the file's text and the separator; the call raises only
\* when the output file cannot be opened.
C3_ReadErrorIsLocal ==
    /\ Finished =>
          /\ \A p \in Taken : Occurs(BlockOf(p), Document)
          /\ Len(Document) = Len(RootBlock) + BlocksLen(Taken)
          /\ reads = Taken
    /\ pc = "raised" => ~outWritable

C3_Witness ==
    /\ Finished /\ prog = "parse_folder"
    /\ unreadable = { <<A_PY>> }
    /\ <<SUBTESTS, A_PY>> \in disk
    /\ Occurs(<<"[", "a", ".py", "]", "\n", "Error reading file: ", ReadError, "\n", "\n", "\n",
                "[", "sub", "tests", "/", "a", ".py", "]", "\n">>
              \o ReadText(<<SUBTESTS, A_PY>>, output_file), Document)

\* C4: no flatten completes with an empty set of included extensions.
C4_EmptyIncludeIsRejected ==
    Finished => RunInclude # {}

\* C5: a fatal rejection produces no output.  main that exits with an error
\* has listed and read nothing and written no document, and for an invalid
\* root the output file is as it was (absent, or its old text); a rejected
\* generate leaves the displayed text as it was; scan_directory that raises
\* has listed and read nothing and returned nothing.
Rejected ==
    \/ prog = "main" /\ pc = "exit1"
    \/ event \in {"warning: Invalid directory", "warning: No file extensions configured",
                  "ValueError: Invalid directory"}
C5_RejectionProducesNothing ==
    /\ [](Rejected => enumerated = {} /\ reads = {})
    /\ [](prog = "main" /\ pc = "exit1" => (out = Absent \/ Count(RootTag, out) = 0))
    /\ [](prog = "main" /\ event = "not a valid directory" =>
             /\ out \in {Absent, OldText}
             /\ (out = Absent /\ output_file # Outside => output_file \notin disk))
    /\ [][Rejected' => text_display' = text_display /\ returned' = returned]_vars

C5_Witness ==
    /\ prog = "window" /\ event = "warning: Invalid directory"
    /\ Count(RootTag, text_display) = 1

\* C6: a second flatten of the unchanged tree with the same configuration
\* (and output file) leaves the same output as the first.
C6_SecondCallSameOutput ==
    /\ (prog = "parse_folder" /\ pc = "done" /\ runs >= 2 /\ output_file = Outside)
          => out = SubSeq(out, 1, base)
    /\ \A i, j \in 1..Len(returned) : returned[i] = returned[j]

\* C7: a produced document starts with the one root header holding the
\* absolute root path, and is that header alone when no file is selected.
C7_RootHeaderAlways ==
    Finished =>
        /\ Len(Document) >= Len(RootBlock)
        /\ SubSeq(Document, 1, Len(RootBlock)) = RootBlock
        /\ Count(RootTag, Document) = 1
        /\ Selected(disk, RunInclude, RunSkip) = {} =>
              /\ Document = RootBlock
              /\ Headers(Document) = {}
              /\ Count("Error reading file: ", Document) = 0

C7_Witness ==
    /\ Finished /\ prog = "main"
    /\ disk # {} /\ Selected(disk, RunInclude, RunSkip) = {}
    /\ Document = <<RootTag, "/", "proj", "\n", "\n">>

\* C8: a run changes nothing below the root.
C8_TreeIsOnlyRead == [][disk' = disk]_vars

\* C9: the scanner always uses the window's configuration, and a cancelled
\* settings dialog changes neither.
C9_ScannerUsesWindowConfig ==
    /\ [](scanner = config)
    /\ [][event' = "dialog rejected" => config' = config /\ scanner' = scanner]_vars

C9_Witness ==
    /\ prog = "window" /\ event = "ConfigurationError"
    /\ runs = 2 /\ config.include_files = {} /\ scanner = config

\* C10: main validates, then truncates, then parse_folder appends: after a
\* successful run the output file is the one document of this run, whatever
\* it held before.
C10_OneDocumentAfterMain ==
    prog = "main" =>
        /\ pc \in {"validated", "truncated", "walking", "done"} => IsDir(root_dir)
        /\ pc = "truncated" => out = <<>>
        /\ pc \in {"walking", "done"} =>
              /\ base = 0
              /\ SubSeq(out, 1, Len(RootBlock)) = RootBlock
              /\ Count(RootTag, out) = 1
              /\ Count("old text", out) = 0
        /\ pc = "done" => Headers(out) = reads

C10_Witness ==
    /\ prog = "main" /\ pc = "done" /\ runs = 2
    /\ reads # {}

====
